---------------------------- MODULE Spec2Model ----------------------------
(***************************************************************************)
(* State-machine model of the CSV visualiser component App                 *)
(* ("src/Inge web parcial/src/App.jsx").                                   *)
(*                                                                         *)
(* The React state hooks are the variables; every event handler and every  *)
(* asynchronous callback is one atomic action (JavaScript runs each of     *)
(* them to completion).  filteredData and chartData are recomputed from    *)
(* the state on every render, so they are operators over the variables.    *)
(*                                                                         *)
(* Strings whose characters matter (cells, filter needles) are sequences   *)
(* of one-character strings; column names, messages and whole CSV texts    *)
(* are atomic strings.                                                     *)
(***************************************************************************)
EXTENDS Integers, Sequences, FiniteSets, Bags, TLC

VARIABLES
    csvText,      \* useState("")          contents of the textarea
    data,         \* useState([])          parsed rows
    columns,      \* useState([])          header fields
    xColumn,      \* useState("")
    yColumn,      \* useState("")
    orientation,  \* useState("vertical")
    error,        \* useState("")
    darkMode,     \* useState(false)
    filters,      \* useState({})          column name -> needle
    uploads,      \* files handed to Papa.parse whose complete callback is pending
    images,       \* Image objects of exportChartPNG whose onload is pending
    downloads     \* number of chart.png downloads triggered (a.click())

vars == <<csvText, data, columns, xColumn, yColumn, orientation, error,
          darkMode, filters, uploads, images, downloads>>

-----------------------------------------------------------------------------
(* Bounds of the model.                                                    *)

\* Files being read at the same time.
MaxUploads == 2
\* Export images being decoded at the same time.
MaxImages == 2
\* Downloads counted before the export button is no longer pressed.
MaxDownloads == 2

-----------------------------------------------------------------------------
(* JavaScript values.                                                      *)

\* The value of a property that an object does not have.
Undefined == <<"undefined">>

Range(s) == {s[i] : i \in 1..Len(s)}

\* row[col]
Cell(row, col) == IF col \in DOMAIN row THEN row[col] ELSE Undefined

\* String.prototype.toLowerCase on the characters that occur in the model.
LowerChar(c) ==
    CASE c = "A" -> "a"
      [] c = "B" -> "b"
      [] OTHER   -> c

toLowerCase(s) == [i \in 1..Len(s) |-> LowerChar(s[i])]

\* String.prototype.includes
includes(s, needle) ==
    \E i \in 0..(Len(s) - Len(needle)) : SubSeq(s, i + 1, i + Len(needle)) = needle

Digits == <<"0", "1", "2", "3", "4", "5", "6", "7", "8", "9">>

IsDigit(c) == c \in Range(Digits)

DigitValue(c) == (CHOOSE i \in 1..Len(Digits) : Digits[i] = c) - 1

RECURSIVE DecimalValue(_)
DecimalValue(s) ==
    IF s = <<>> THEN 0
    ELSE 10 * DecimalValue(SubSeq(s, 1, Len(s) - 1)) + DigitValue(s[Len(s)])

RECURSIVE TrimStart(_)
TrimStart(s) == IF s # <<>> /\ s[1] = " " THEN TrimStart(Tail(s)) ELSE s

RECURSIVE TrimEnd(_)
TrimEnd(s) ==
    IF s # <<>> /\ s[Len(s)] = " " THEN TrimEnd(SubSeq(s, 1, Len(s) - 1)) ELSE s

NaN == [nan |-> TRUE, val |-> 0]

Num(n) == [nan |-> FALSE, val |-> n]

\* Number(v) for v undefined or a string over digits, sign, blank and the
\* letters a, b, A, B (no ".", "e", "x" or "Infinity" occurs in the model):
\* blanks are trimmed, the empty string is 0, an optionally signed run of
\* decimal digits is its value, anything else is NaN.
Number(v) ==
    IF v = Undefined THEN NaN
    ELSE LET t    == TrimEnd(TrimStart(v))
             neg  == t # <<>> /\ t[1] = "-"
             sign == t # <<>> /\ t[1] \in {"-", "+"}
             body == IF sign THEN Tail(t) ELSE t
         IN  IF t = <<>> THEN Num(0)
             ELSE IF body # <<>> /\ \A i \in 1..Len(body) : IsDigit(body[i])
                  THEN Num(IF neg THEN 0 - DecimalValue(body) ELSE DecimalValue(body))
                  ELSE NaN

\* n || 0 : NaN and 0 are falsy
OrZero(n) == IF n.nan \/ n.val = 0 THEN 0 ELSE n.val

-----------------------------------------------------------------------------
(* The CSV parser, Papa.parse(input, {header: true, skipEmptyLines: true}). *)
(* The library is not part of the repository: it is represented by its     *)
(* results on the sample documents below.                                  *)

NoText      == ""
SalesText   == "name,qty\nAb,10\nb,b\nAb,20"
StockText   == "qty,tag\n1,\n-1,A"
HeaderText  == "name,qty"
RaggedText  == "name,qty,tag\n1,2\n4"

\* What the user can type or paste into the textarea, and what a chosen file
\* can contain.
Texts == {NoText, SalesText, StockText, HeaderText, RaggedText}

Parsed(rows, fields) == [data |-> rows, errors |-> <<>>, meta |-> [fields |-> fields]]

PapaParse(text) ==
    CASE text = SalesText ->
           Parsed(<<[name |-> <<"A", "b">>, qty |-> <<"1", "0">>],
                    [name |-> <<"b">>,      qty |-> <<"b">>],
                    [name |-> <<"A", "b">>, qty |-> <<"2", "0">>]>>,
                  <<"name", "qty">>)
      [] text = StockText ->
           Parsed(<<[qty |-> <<"1">>,      tag |-> <<>>],
                    [qty |-> <<"-", "1">>, tag |-> <<"A">>]>>,
                  <<"qty", "tag">>)
      [] text = HeaderText ->
           Parsed(<<>>, <<"name", "qty">>)
      [] text = RaggedText ->
           [data   |-> <<[name |-> <<"1">>, qty |-> <<"2">>], [name |-> <<"4">>]>>,
            errors |-> <<[message |-> "Too few fields: expected 3 fields but parsed 2"],
                         [message |-> "Too few fields: expected 3 fields but parsed 1"]>>,
            meta   |-> [fields |-> <<"name", "qty", "tag">>]]
      [] OTHER ->
           [data   |-> <<>>,
            errors |-> <<[message |->
                          "Unable to auto-detect delimiting character; defaulted to ','"]>>,
            meta   |-> [fields |-> <<>>]]

\* What the user can type into a filter box.
Needles == {<<>>, <<"1">>, <<"a", "B">>}

\* No file chosen in the file dialog: e.target.files[0] is undefined.
NoFile == "<no file>"

\* e.message of an exception thrown while exporting.
ExportFailure == "export failed"

-----------------------------------------------------------------------------
(* Initial state: the useState initial values (lines 20-29).               *)

Init ==
    /\ csvText = ""
    /\ data = <<>>
    /\ columns = <<>>
    /\ xColumn = ""
    /\ yColumn = ""
    /\ orientation = "vertical"
    /\ error = ""
    /\ darkMode = FALSE
    /\ filters = <<>>
    /\ uploads = EmptyBag
    /\ images = 0
    /\ downloads = 0

-----------------------------------------------------------------------------
(* Derived values, recomputed on every render.                             *)

\* Object.entries(fs).every(([col, value]) =>
\*     row[col]?.toString().toLowerCase().includes(value.toLowerCase()))
\* An undefined row[col] short-circuits the whole optional chain to
\* undefined, which every() treats as false.  toString() of a string is
\* that string.
RowPasses(row, fs) ==
    \A col \in DOMAIN fs :
        IF Cell(row, col) = Undefined
        THEN FALSE
        ELSE includes(toLowerCase(Cell(row, col)), toLowerCase(fs[col]))

\* A filter that returns the passing rows newest first.
FilterNewestFirst(rows, fs) ==
    LET kept == SelectSeq(rows, LAMBDA row : RowPasses(row, fs))
    IN  [i \in 1..Len(kept) |-> kept[Len(kept) + 1 - i]]

Filter(rows, fs) == SelectSeq(rows, LAMBDA row : RowPasses(row, fs))

filteredData == Filter(data, filters)

\* A chart built from all rows instead of the filtered ones.
chartDataUnfiltered ==
    [labels |-> [i \in 1..Len(data) |-> Cell(data[i], xColumn)],
     datasets |-> <<[label |-> yColumn,
                     data  |-> [i \in 1..Len(data) |->
                                  OrZero(Number(Cell(data[i], yColumn)))],
                     backgroundColor |-> IF darkMode THEN "#ffffff" ELSE "#000000"]>>]

chartData ==
    LET rows == filteredData
    IN  [labels |-> [i \in 1..Len(rows) |-> Cell(rows[i], xColumn)],
         datasets |-> <<[label |-> yColumn,
                         data  |-> [i \in 1..Len(rows) |->
                                      OrZero(Number(Cell(rows[i], yColumn)))],
                         backgroundColor |-> IF darkMode THEN "#ffffff" ELSE "#000000"]>>]

\* chartRef.current: the Bar element exists while xColumn && yColumn.
chartRef == xColumn # "" /\ yColumn # ""

\* value={filters[col] || ""} of a filter box
FilterBoxValue(col) == IF col \in DOMAIN filters THEN filters[col] ELSE <<>>

-----------------------------------------------------------------------------
(* Event handlers and callbacks.                                           *)

\* textarea onChange (line 168)
setCsvText ==
    \E text \in Texts :
        /\ csvText' = text
        /\ UNCHANGED <<data, columns, xColumn, yColumn, orientation, error,
                       darkMode, filters, uploads, images, downloads>>

\* parseCSV storing the rows before it looks at result.errors.
parseCSVKeepsPartialRows ==
    LET result == PapaParse(csvText)
    IN  /\ data' = result.data
        /\ IF Len(result.errors) # 0
           THEN /\ error' = "CSV mal formateado: " \o result.errors[1].message
                /\ UNCHANGED columns
           ELSE /\ error' = ""
                /\ columns' = result.meta.fields
        /\ UNCHANGED <<csvText, xColumn, yColumn, orientation, darkMode, filters,
                       uploads, images, downloads>>

\* "Procesar CSV" button (lines 32-45).  Papa.parse does not throw on a
\* string, so the catch branch (lines 42-44) is not taken.
parseCSV ==
    LET result == PapaParse(csvText)
    IN  /\ IF Len(result.errors) # 0
           THEN /\ error' = "CSV mal formateado: " \o result.errors[1].message
                /\ UNCHANGED <<data, columns>>
           ELSE /\ error' = ""
                /\ data' = result.data
                /\ columns' = result.meta.fields
        /\ UNCHANGED <<csvText, xColumn, yColumn, orientation, darkMode, filters,
                       uploads, images, downloads>>

\* file input onChange (lines 48-64): the parse of the file is started and
\* its complete callback runs later.
handleFileUpload(file) ==
    /\ IF file = NoFile
       THEN UNCHANGED uploads
       ELSE /\ BagCardinality(uploads) < MaxUploads
            /\ uploads' = uploads (+) SetToBag({file})
    /\ UNCHANGED <<csvText, data, columns, xColumn, yColumn, orientation, error,
                   darkMode, filters, images, downloads>>

\* complete resetting the chart selection when a new table arrives.
completeResetsSelection(file) ==
    LET results == PapaParse(file)
    IN  /\ BagIn(file, uploads)
        /\ uploads' = uploads (-) SetToBag({file})
        /\ IF Len(results.errors) # 0
           THEN /\ error' = "CSV mal formateado: " \o results.errors[1].message
                /\ UNCHANGED <<data, columns, xColumn, yColumn>>
           ELSE /\ error' = ""
                /\ data' = results.data
                /\ columns' = results.meta.fields
                /\ xColumn' = ""
                /\ yColumn' = ""
        /\ UNCHANGED <<csvText, orientation, darkMode, filters, images, downloads>>

\* complete without its setColumns call.
completeRowsOnly(file) ==
    LET results == PapaParse(file)
    IN  /\ BagIn(file, uploads)
        /\ uploads' = uploads (-) SetToBag({file})
        /\ IF Len(results.errors) # 0
           THEN /\ error' = "CSV mal formateado: " \o results.errors[1].message
                /\ UNCHANGED data
           ELSE /\ error' = ""
                /\ data' = results.data
        /\ UNCHANGED <<csvText, columns, xColumn, yColumn, orientation, darkMode,
                       filters, images, downloads>>

\* complete: (results) => ... (lines 54-62), for one of the pending files
complete(file) ==
    LET results == PapaParse(file)
    IN  /\ BagIn(file, uploads)
        /\ uploads' = uploads (-) SetToBag({file})
        /\ IF Len(results.errors) # 0
           THEN /\ error' = "CSV mal formateado: " \o results.errors[1].message
                /\ UNCHANGED <<data, columns>>
           ELSE /\ error' = ""
                /\ data' = results.data
                /\ columns' = results.meta.fields
        /\ UNCHANGED <<csvText, xColumn, yColumn, orientation, darkMode, filters,
                       images, downloads>>

\* filter box onChange (lines 67-69, 196-206).  The boxes are rendered for
\* the current columns while data.length > 0, and a change event carries a
\* value other than the one the box shows.
handleFilterChange(col, value) ==
    /\ Len(data) > 0
    /\ col \in Range(columns)
    /\ value # FilterBoxValue(col)
    /\ filters' = [c \in DOMAIN filters \cup {col} |->
                     IF c = col THEN value ELSE filters[c]]
    /\ UNCHANGED <<csvText, data, columns, xColumn, yColumn, orientation, error,
                   darkMode, uploads, images, downloads>>

\* The options of the two column selects (lines 236-241, 252-257).
ColumnOptions == {""} \cup Range(columns)

\* "Columna X" select onChange (lines 227-243)
setXColumn(col) ==
    /\ Len(columns) > 0
    /\ col \in ColumnOptions
    /\ xColumn' = col
    /\ UNCHANGED <<csvText, data, columns, yColumn, orientation, error,
                   darkMode, filters, uploads, images, downloads>>

\* "Columna Y" select onChange (lines 245-259)
setYColumn(col) ==
    /\ Len(columns) > 0
    /\ col \in ColumnOptions
    /\ yColumn' = col
    /\ UNCHANGED <<csvText, data, columns, xColumn, orientation, error,
                   darkMode, filters, uploads, images, downloads>>

\* "Orientacion" select onChange (lines 261-271)
setOrientation(value) ==
    /\ Len(columns) > 0
    /\ orientation' = value
    /\ UNCHANGED <<csvText, data, columns, xColumn, yColumn, error,
                   darkMode, filters, uploads, images, downloads>>

\* The theme button also clearing the filters.
toggleDarkModeResetsFilters ==
    /\ darkMode' = ~darkMode
    /\ filters' = <<>>
    /\ UNCHANGED <<csvText, data, columns, xColumn, yColumn, orientation, error,
                   uploads, images, downloads>>

\* dark mode button onClick (lines 155-160)
toggleDarkMode ==
    /\ darkMode' = ~darkMode
    /\ UNCHANGED <<csvText, data, columns, xColumn, yColumn, orientation, error,
                   filters, uploads, images, downloads>>

\* "Exportar PNG" button (lines 107-138, 273-278), up to the point where the
\* handler returns.  Without a chart it returns at once; toBase64Image()
\* either throws inside the try block or the Image starts to load.
exportChartPNG(snapshotThrows) ==
    /\ Len(columns) > 0
    /\ downloads < MaxDownloads
    /\ IF ~chartRef
       THEN UNCHANGED <<error, images>>
       ELSE IF snapshotThrows
            THEN /\ error' = "Error exportando: " \o ExportFailure
                 /\ UNCHANGED images
            ELSE /\ images < MaxImages
                 /\ images' = images + 1
                 /\ UNCHANGED error
    /\ UNCHANGED <<csvText, data, columns, xColumn, yColumn, orientation,
                   darkMode, filters, uploads, downloads>>

\* image.onload (lines 116-134).  It runs after exportChartPNG has returned,
\* outside its try block: an exception of the composite or of toDataURL
\* leaves the callback before a.click() and is caught by nothing.
imageOnload(compositeThrows) ==
    /\ images > 0
    /\ images' = images - 1
    /\ IF compositeThrows
       THEN UNCHANGED downloads
       ELSE downloads' = downloads + 1
    /\ UNCHANGED <<csvText, data, columns, xColumn, yColumn, orientation, error,
                   darkMode, filters, uploads>>

-----------------------------------------------------------------------------
(* Specifications.                                                         *)

TextParse   == parseCSV
FileChosen  == \E file \in Texts \cup {NoFile} : handleFileUpload(file)
FileParsed  == \E file \in Texts : complete(file)
FilterTyped == \E col \in Range(columns), value \in Needles : handleFilterChange(col, value)
XSelected   == \E col \in ColumnOptions : setXColumn(col)
YSelected   == \E col \in ColumnOptions : setYColumn(col)
OrientationSelected == \E value \in {"vertical", "horizontal"} : setOrientation(value)
ExportClicked == \E snapshotThrows \in BOOLEAN : exportChartPNG(snapshotThrows)
ImageLoaded == \E compositeThrows \in BOOLEAN : imageOnload(compositeThrows)

\* The whole component.
Next ==
    \/ setCsvText
    \/ TextParse
    \/ FileChosen
    \/ FileParsed
    \/ FilterTyped
    \/ XSelected
    \/ YSelected
    \/ OrientationSelected
    \/ toggleDarkMode
    \/ ExportClicked
    \/ ImageLoaded

Spec == Init /\ [][Next]_vars

\* Text parses, file uploads and their completions, with a chart selection.
NextParse ==
    \/ setCsvText
    \/ TextParse
    \/ FileChosen
    \/ FileParsed
    \/ XSelected
    \/ YSelected

SpecParse == Init /\ [][NextParse]_vars

\* Parsing and filtering.
NextFilter ==
    \/ setCsvText
    \/ TextParse
    \/ FilterTyped

SpecFilter == Init /\ [][NextFilter]_vars

\* Parsing, filtering and the chart controls.
NextChart ==
    \/ setCsvText
    \/ TextParse
    \/ FilterTyped
    \/ XSelected
    \/ YSelected
    \/ OrientationSelected

SpecChart == Init /\ [][NextChart]_vars

\* Parsing, the chart selection and the export.
NextExport ==
    \/ setCsvText
    \/ TextParse
    \/ XSelected
    \/ YSelected
    \/ ExportClicked
    \/ ImageLoaded

SpecExport == Init /\ [][NextExport]_vars

\* Everything that is synchronous, with the theme button.
NextTheme ==
    \/ setCsvText
    \/ TextParse
    \/ FilterTyped
    \/ XSelected
    \/ YSelected
    \/ OrientationSelected
    \/ toggleDarkMode

SpecTheme == Init /\ [][NextTheme]_vars

-----------------------------------------------------------------------------
(* Properties.                                                             *)

ParseErrorMessage(result) == "CSV mal formateado: " \o result.errors[1].message

Failed(result) == Len(result.errors) # 0

\* C1: a parse attempt (parseCSV, or the complete callback of a file) whose
\* result reports an error leaves data and columns as they were and sets
\* error to a non-empty text carrying the first reported error's message.
ParseErrorKeepsTable ==
    [][/\ (parseCSV /\ Failed(PapaParse(csvText)))
            => /\ data' = data
               /\ columns' = columns
               /\ error' # ""
               /\ error' = ParseErrorMessage(PapaParse(csvText))
       /\ \A file \in Texts :
            (complete(file) /\ Failed(PapaParse(file)))
            => /\ data' = data
               /\ columns' = columns
               /\ error' # ""
               /\ error' = ParseErrorMessage(PapaParse(file))]_vars

\* A failed parse has happened while a table was loaded: the table is still
\* there and the message is the first of the two errors of the ragged text.
ParseErrorOverTable ==
    /\ Len(data) > 0
    /\ error = "CSV mal formateado: Too few fields: expected 3 fields but parsed 2"

\* C2: a parse attempt whose result reports no error clears error, makes
\* data and columns exactly the rows and header fields of that result, and
\* leaves xColumn, yColumn and orientation alone, also when they name a
\* column the new table lacks.
ParseSuccessReplacesTable ==
    [][/\ (parseCSV /\ ~Failed(PapaParse(csvText)))
            => /\ error' = ""
               /\ data' = PapaParse(csvText).data
               /\ columns' = PapaParse(csvText).meta.fields
               /\ UNCHANGED <<xColumn, yColumn, orientation>>
       /\ \A file \in Texts :
            (complete(file) /\ ~Failed(PapaParse(file)))
            => /\ error' = ""
               /\ data' = PapaParse(file).data
               /\ columns' = PapaParse(file).meta.fields
               /\ UNCHANGED <<xColumn, yColumn, orientation>>]_vars

\* A table was replaced by one without the selected x column, by a file
\* (the textarea holds no text that parses), after an earlier error or not.
StaleSelectionAfterParse ==
    /\ error = ""
    /\ Len(data) > 0
    /\ xColumn # ""
    /\ xColumn \notin Range(columns)
    /\ csvText = NoText

\* The cell of a row at a column, a missing cell read as the empty string.
CellOrEmpty(row, col) == IF col \in DOMAIN row THEN row[col] ELSE <<>>

\* C3: a row is in filteredData iff for every entry of filters the
\* lower-cased needle is a substring of the lower-cased cell, a missing cell
\* counting as the empty string (so it passes an empty needle).
FilterIsSubstringMatch ==
    filteredData =
        SelectSeq(data, LAMBDA row :
            \A col \in DOMAIN filters :
                includes(toLowerCase(CellOrEmpty(row, col)), toLowerCase(filters[col])))

Without(fs, col) == [c \in DOMAIN fs \ {col} |-> fs[c]]

\* C4: a filter entry for a column the current table does not contain is
\* inert: the filtered view is what it would be without that entry.
StaleFilterIsInert ==
    \A c \in DOMAIN filters :
        c \notin Range(columns) => filteredData = Filter(data, Without(filters, c))

IsSubsequence(sub, seq) ==
    \E idx \in [1..Len(sub) -> 1..Len(seq)] :
        /\ \A i \in 1..Len(sub) : sub[i] = seq[idx[i]]
        /\ \A i, j \in 1..Len(sub) : i < j => idx[i] < idx[j]

\* C5: filteredData is an order-preserving subsequence of data, and it is
\* data itself when filters has no entry.
FilteredKeepsOrder ==
    /\ Len(filteredData) <= Len(data)
    /\ IsSubsequence(filteredData, data)
    /\ (DOMAIN filters = {} => filteredData = data)

\* A filter is active and keeps the first and the third row of the sales
\* table, dropping the second.
FilterKeepsSome ==
    /\ DOMAIN filters # {}
    /\ Len(data) = 3
    /\ Len(filteredData) = 2
    /\ filteredData[1] = data[1]
    /\ filteredData[2] = data[3]
    /\ data[1] # data[3]

\* The numbers that the cells of the sample documents denote; every other
\* cell, and a missing cell, is no number.
NumeralValue(cell) ==
    CASE cell = <<"1", "0">> -> 10
      [] cell = <<"2", "0">> -> 20
      [] cell = <<"1">>      -> 1
      [] cell = <<"-", "1">> -> 0 - 1
      [] OTHER               -> 0

ChartSeriesShape ==
    LET rows   == filteredData
        labels == chartData.labels
        values == chartData.datasets[1].data
    IN  /\ DOMAIN labels = 1..Len(rows)
        /\ DOMAIN values = 1..Len(rows)
        /\ \A i \in 1..Len(rows) :
             /\ labels[i] = IF xColumn \in DOMAIN rows[i]
                            THEN rows[i][xColumn]
                            ELSE Undefined
             /\ values[i] = IF yColumn \in DOMAIN rows[i]
                            THEN NumeralValue(rows[i][yColumn])
                            ELSE 0

\* C6: in every state the chart has one label and one value per filtered
\* row, in filtered order and without grouping: labels[i] is the row's cell
\* at xColumn, values[i] the number its cell at yColumn denotes, or 0 when
\* the cell is missing or no number.  Labels and values are thereby fixed by
\* the filtered rows, xColumn and yColumn, and a step that changes the
\* orientation changes none of these three.
ChartSeriesPerRow ==
    [][/\ ChartSeriesShape
       /\ orientation' # orientation =>
            /\ filteredData' = filteredData
            /\ UNCHANGED <<xColumn, yColumn>>]_vars

\* The sales table charted horizontally under an active filter that keeps
\* all three rows: two bars share the label "Ab", and the values are
\* 10, 0 (no number) and 20.
ChartWithDuplicateLabels ==
    /\ orientation = "horizontal"
    /\ DOMAIN filters # {}
    /\ Len(filteredData) = 3
    /\ chartData.labels = <<<<"A", "b">>, <<"b">>, <<"A", "b">>>>
    /\ chartData.datasets[1].data = <<10, 0, 20>>

ExportErrorMessage == "Error exportando: " \o ExportFailure

\* C7: an export that fails with an exception, in the snapshot or in the
\* image-load callback, sets error to an export message and triggers no
\* download.
ExportFailureIsReported ==
    [][((chartRef /\ exportChartPNG(TRUE)) \/ imageOnload(TRUE))
         => /\ error' = ExportErrorMessage
            /\ downloads' = downloads]_vars

\* C8: every operation that completes successfully (a parse without errors,
\* an export that reaches the download) leaves error empty.
SuccessClearsError ==
    [][(\/ (parseCSV /\ ~Failed(PapaParse(csvText)))
        \/ \E file \in Texts : complete(file) /\ ~Failed(PapaParse(file))
        \/ imageOnload(FALSE))
         => error' = ""]_vars

\* C9: a step that changes the theme flag changes nothing else of the
\* table, the filters, the selection or the error.
DarkModeOnlyTheme ==
    [][darkMode' # darkMode =>
         /\ UNCHANGED <<data, columns, filters, xColumn, yColumn, orientation, error>>
         /\ filteredData' = filteredData]_vars

\* Dark mode is on over a loaded table with a filter, a selection and an
\* error message.
DarkOverLoadedTable ==
    /\ darkMode
    /\ Len(data) > 0
    /\ DOMAIN filters # {}
    /\ xColumn # ""
    /\ yColumn # ""
    /\ orientation = "horizontal"
    /\ error # ""

\* C10: columns and data are the initial empty pair or the header fields and
\* rows of one single successful parse, so every row has exactly the keys
\* listed in columns.
TableFromOneParse ==
    /\ \/ (columns = <<>> /\ data = <<>>)
       \/ \E text \in Texts :
            /\ ~Failed(PapaParse(text))
            /\ columns = PapaParse(text).meta.fields
            /\ data = PapaParse(text).data
    /\ \A i \in 1..Len(data) : DOMAIN data[i] = Range(columns)

\* A file's table is shown (the textarea never held text that parses) while
\* the parse of another file, with other columns, is still pending.
TableFromFileWhilePending ==
    /\ csvText = NoText
    /\ Len(data) > 0
    /\ \E file \in Texts :
         /\ BagIn(file, uploads)
         /\ ~Failed(PapaParse(file))
         /\ PapaParse(file).meta.fields # columns

=============================================================================
